---- MODULE Spec2Model ----
(***************************************************************************)
(* Model of geometry/geometry_creation.py: the attribute layout planner,   *)
(* the interleaved buffer encoder, the decoder used by export_mesh, the    *)
(* instance builder and the entity operations that swap instance buffers   *)
(* and geometries in the component store.                                  *)
(*                                                                         *)
(* Numbers are whole-valued (0.0, 1.0, -3.0 ...); every one of them is a   *)
(* single-precision value, so np.single stores it exactly, and the model   *)
(* computes its IEEE-754 bytes.  Bytes are integers 0..255.                *)
(***************************************************************************)
EXTENDS Integers, Sequences, FiniteSets, TLC

VARIABLES created, buffers, views, geometries, entities, pending,
          source, mesh, last

vars == <<created, buffers, views, geometries, entities, pending,
          source, mesh, last>>

(***************************************************************************)
(* Bounds of the model.                                                    *)
(***************************************************************************)
MaxVerts == 2
MaxGroups == 2
MaxPatches == 2
MaxComponents == 5
MaxInst == 2

\* vertex counts past the signed 8-bit range and at the U8 / U16 boundary
BigCounts == {129, 256}

(***************************************************************************)
(* Format registry.                                                        *)
(***************************************************************************)
SIZES == [U8 |-> 1, U16 |-> 2, U32 |-> 4, U8VEC4 |-> 4, U16VEC2 |-> 4,
          VEC2 |-> 8, VEC3 |-> 12, VEC4 |-> 16, MAT3 |-> 36, MAT4 |-> 64]

FORMAT_MAP == [U8 |-> "int8", U16 |-> "int16", U32 |-> "int32",
               U8VEC4 |-> "int8", U16VEC2 |-> "int16", VEC2 |-> "single",
               VEC3 |-> "single", VEC4 |-> "single", MAT3 |-> "single",
               MAT4 |-> "single"]

\* numpy's itemsize of each element type named by FORMAT_MAP
itemsize == [int8 |-> 1, int16 |-> 2, int32 |-> 4, single |-> 4]

DEFAULT_POSITION == <<0, 0, 0, 0>>
DEFAULT_COLOR == <<1, 1, 1, 1>>
DEFAULT_ROTATION == <<0, 0, 0, 0>>
DEFAULT_SCALE == <<1, 1, 1, 0>>

(***************************************************************************)
(* Element conversions: what np.array(x, dtype).tobytes() writes and what  *)
(* np.frombuffer(b, dtype) reads back.                                     *)
(***************************************************************************)
Abs(v) == IF v < 0 THEN -v ELSE v

Min(a, b) == IF a < b THEN a ELSE b

RECURSIVE Log2(_)
Log2(m) == IF m < 2 THEN 0 ELSE 1 + Log2(m \div 2)

\* little-endian IEEE-754 binary32 bytes of the whole number v, |v| < 2^24
SingleBytes(v) ==
    IF v = 0 THEN <<0, 0, 0, 0>>
    ELSE LET s    == IF v < 0 THEN 1 ELSE 0
             e    == Log2(Abs(v))
             bexp == e + 127
             mant == (Abs(v) - 2^e) * 2^(23 - e)
         IN  << mant % 256,
                (mant \div 256) % 256,
                (bexp % 2) * 128 + (mant \div 65536),
                s * 128 + (bexp \div 2) >>

\* the number four little-endian binary32 bytes stand for; a value that is
\* not a whole number below 2^24 is kept as its raw bytes
SingleValue(b) ==
    LET s    == b[4] \div 128
        bexp == (b[4] % 128) * 2 + (b[3] \div 128)
        mant == (b[3] % 128) * 65536 + b[2] * 256 + b[1]
        e    == bexp - 127
    IN  IF bexp = 0 /\ mant = 0 THEN 0
        ELSE IF e >= 0 /\ e <= 23 /\ mant % (2^(23 - e)) = 0
             THEN (IF s = 1 THEN -1 ELSE 1) * (2^e + (mant \div (2^(23 - e))))
             ELSE [raw |-> b]

\* byte k (0 = lowest) of the two's complement of v
TwosByte(v, k) ==
    IF v >= 0 THEN (v \div (256^k)) % 256
    ELSE 255 - ((((-v) - 1) \div (256^k)) % 256)

\* little-endian two's complement bytes of v in w bytes (the low w bytes,
\* as a wrapping conversion leaves them)
IntBytes(v, w) == [k \in 1..w |-> TwosByte(v, k - 1)]

RECURSIVE Magnitude(_, _)
\* sum of b[k] * 256^(k-1); inv = TRUE takes the complement of each byte
Magnitude(b, inv) ==
    IF b = <<>> THEN 0
    ELSE (IF inv THEN 255 - Head(b) ELSE Head(b)) + 256 * Magnitude(Tail(b), inv)

\* the signed integer that little-endian two's complement bytes stand for
IntValue(b) ==
    IF b[Len(b)] >= 128 THEN -Magnitude(b, TRUE) - 1 ELSE Magnitude(b, FALSE)

\* does the Python integer v fit the integer element type?
Fits(v, dtype) ==
    CASE dtype = "int8"  -> v >= -128 /\ v <= 127
      [] dtype = "int16" -> v >= -32768 /\ v <= 32767
      [] OTHER -> TRUE

ElemBytes(v, dtype) ==
    IF dtype = "single" THEN SingleBytes(v) ELSE IntBytes(v, itemsize[dtype])

ElemValue(b, dtype) ==
    IF dtype = "single" THEN SingleValue(b) ELSE IntValue(b)

RECURSIVE Flatten(_)
\* a list of lists as one flat list (numpy's C order)
Flatten(ll) == IF ll = <<>> THEN <<>> ELSE Head(ll) \o Flatten(Tail(ll))

RECURSIVE tobytes(_, _)
\* np.array(flat, dtype=dtype).tobytes(order='C') for a flat list
tobytes(flat, dtype) ==
    IF flat = <<>> THEN <<>>
    ELSE ElemBytes(Head(flat), dtype) \o tobytes(Tail(flat), dtype)

\* would np.array(flat, dtype) have to store a value the type cannot hold?
Overflows(flat, dtype) == \E k \in 1..Len(flat) : ~Fits(flat[k], dtype)

\* np.frombuffer(b, dtype).tolist() of a buffer whose length is a multiple
\* of the item size
frombuffer(b, dtype) ==
    LET w == itemsize[dtype]
    IN  [k \in 1..(Len(b) \div w) |->
            ElemValue(SubSeq(b, (k - 1) * w + 1, k * w), dtype)]

(***************************************************************************)
(* get_format and set_up_attributes.                                       *)
(***************************************************************************)
get_format(num_vertices) ==
    IF num_vertices < 256 THEN "U8"
    ELSE IF num_vertices < 65536 THEN "U16"
    ELSE "U32"

AttributeInput(sem, fmt, norm) ==
    [semantic |-> sem, format |-> fmt, normalized |-> norm,
     offset |-> 0, stride |-> 0]

RECURSIVE OffsetAfter(_, _)
\* the running offset after the first k descriptors
OffsetAfter(info, k) ==
    IF k = 0 THEN 0 ELSE OffsetAfter(info, k - 1) + SIZES[info[k].format]

\* the descriptors appended for the lists that are present (non-empty)
attribute_list(input) ==
    <<AttributeInput("POSITION", "VEC3", FALSE)>>
    \o (IF input.normals # <<>>
        THEN <<AttributeInput("NORMAL", "VEC3", FALSE)>> ELSE <<>>)
    \o (IF input.tangents # <<>>
        THEN <<AttributeInput("TANGENT", "VEC3", FALSE)>> ELSE <<>>)
    \o (IF input.textures # <<>>
        THEN <<AttributeInput("TEXTURE", "U16VEC2", TRUE)>> ELSE <<>>)
    \o (IF input.colors # <<>>
        THEN <<AttributeInput("COLOR", "U8VEC4", TRUE)>> ELSE <<>>)

\* a planner that sets the stride inside the offset loop
set_up_attributes_running(input) ==
    LET info == attribute_list(input)
    IN  [k \in 1..Len(info) |->
            [info[k] EXCEPT !.offset = OffsetAfter(info, k - 1),
                            !.stride = OffsetAfter(info, k)]]

set_up_attributes(input) ==
    LET info == attribute_list(input)
    IN  [k \in 1..Len(info) |->
            [info[k] EXCEPT !.offset = OffsetAfter(info, k - 1),
                            !.stride = OffsetAfter(info, Len(info))]]

(***************************************************************************)
(* The component store: create gives a fresh id, get looks an id up,       *)
(* delete removes it.                                                      *)
(***************************************************************************)
NewId(kind) == created[kind] + 1

\* buffers (each with its view), geometries and entities created so far
Components == created.Buffer + created.Geometry + created.Entity

Counted(kind) == [created EXCEPT ![kind] = @ + 1]

Put(table, id, record) == [k \in DOMAIN table \cup {id} |->
                              IF k = id THEN record ELSE table[k]]

Remove(table, id) == [k \in DOMAIN table \ {id} |-> table[k]]

(***************************************************************************)
(* Inputs of build_geometry_patch.                                         *)
(***************************************************************************)
\* component j of element i of the float list numbered a
FloatComp(a, i, j) ==
    LET x == 5 * a + 3 * i + j
    IN  IF (i + j) % 2 = 0 THEN -x ELSE x

FloatStream(a, len) ==
    [i \in 1..len |-> <<FloatComp(a, i, 1), FloatComp(a, i, 2), FloatComp(a, i, 3)>>]

TextureStream(len) == [i \in 1..len |-> <<300 * i, i>>]

ColorStream(len) == [i \in 1..len |-> <<10 * i, 20, 30, 127>>]

GeometryPatchInput(lv, ln, lt, lx, lc, indices) ==
    [vertices |-> FloatStream(0, lv), normals |-> FloatStream(1, ln),
     tangents |-> FloatStream(2, lt), textures |-> TextureStream(lx),
     colors |-> ColorStream(lc), indices |-> indices,
     index_type |-> "TRIANGLES"]

\* index groups over vertex_count vertices, every entry a valid index
IndicesFor(n) == [k \in 1..Min(n, MaxGroups) |-> <<k - 1, k % n, n - 1>>]

\* the scenario of the specification: one triangle over three positions
TriangleScenario ==
    [vertices |-> << <<0, 0, 0>>, <<1, 0, 0>>, <<0, 1, 0>> >>,
     normals |-> <<>>, tangents |-> <<>>, textures |-> <<>>, colors |-> <<>>,
     indices |-> << <<0, 1, 2>> >>, index_type |-> "TRIANGLES"]

\* every presence combination over MaxVerts vertices, with the normals
\* either absent, one short, or of the same length
LayoutInputs ==
    { GeometryPatchInput(MaxVerts, ln, ft * MaxVerts, fx * MaxVerts,
                         fc * MaxVerts, IndicesFor(MaxVerts)) :
        ln \in {0, MaxVerts - 1, MaxVerts}, ft \in {0, 1}, fx \in {0, 1},
        fc \in {0, 1} }

\* no vertices at all, with and without normals; fewer vertices than normals
ShortVertexInputs ==
    { GeometryPatchInput(0, ln, 0, 0, 0, << <<0, 0, 0>> >>) :
        ln \in {0, MaxVerts - 1, MaxVerts} }
    \cup { GeometryPatchInput(MaxVerts - 1, MaxVerts, 0, 0, 0,
                              IndicesFor(MaxVerts - 1)) }

NoIndexInputs == { GeometryPatchInput(1, 0, 0, 0, 0, <<>>) }

BigInputs ==
    { GeometryPatchInput(n, 0, 0, 0, 0, << <<0, 1, n - 1>> >>) : n \in BigCounts }

PatchInputs ==
    LayoutInputs \cup ShortVertexInputs \cup NoIndexInputs \cup BigInputs
    \cup {TriangleScenario}

\* inputs of the further patches of a multi-patch geometry
FurtherInputs ==
    { GeometryPatchInput(n, fn * n, 0, 0, fc * n, IndicesFor(n)) :
        n \in {1}, fn \in {0, 1}, fc \in {0, 1} }

(***************************************************************************)
(* build_geometry_buffer: the bytes and the index offset.                  *)
(***************************************************************************)
present(input) ==
    SelectSeq(<<input.vertices, input.normals, input.tangents,
                input.textures, input.colors>>, LAMBDA x : x # <<>>)

RECURSIVE MinLen(_)
MinLen(lists) ==
    IF Len(lists) = 1 THEN Len(lists[1])
    ELSE Min(Len(lists[1]), MinLen(Tail(lists)))

\* zip(*data) stops at the shortest list; zip() of nothing yields nothing
zip_length(data) == IF data = <<>> THEN 0 ELSE MinLen(data)

RECURSIVE point_bytes(_, _, _, _)
\* the inner loop over zip(point, attribute_info), from pair k on
point_bytes(data, p, attribute_info, k) ==
    IF k > Len(data) \/ k > Len(attribute_info) THEN <<>>
    ELSE tobytes(data[k][p], FORMAT_MAP[attribute_info[k].format])
         \o point_bytes(data, p, attribute_info, k + 1)

RECURSIVE vertex_bytes(_, _, _, _)
\* the outer loop over the points lo..hi: their bytes, appended in point
\* order (the range is halved to keep the evaluation shallow)
vertex_bytes(data, attribute_info, lo, hi) ==
    IF lo > hi THEN <<>>
    ELSE IF lo = hi THEN point_bytes(data, lo, attribute_info, 1)
    ELSE LET mid == (lo + hi) \div 2
         IN  vertex_bytes(data, attribute_info, lo, mid)
             \o vertex_bytes(data, attribute_info, mid + 1, hi)

\* buffer_bytes when the loop over zip(*data) is done
vertex_section(input, attribute_info) ==
    vertex_bytes(present(input), attribute_info, 1, zip_length(present(input)))

\* an encoder that takes the index offset after appending the indices
build_geometry_buffer_late_offset(input, index_format, attribute_info) ==
    LET vb == vertex_section(input, attribute_info)
        ib == tobytes(Flatten(input.indices), FORMAT_MAP[index_format])
    IN  [buffer_bytes |-> vb \o ib, index_offset |-> Len(vb \o ib)]

build_geometry_buffer(input, index_format, attribute_info) ==
    LET vb == vertex_section(input, attribute_info)
        ib == tobytes(Flatten(input.indices), FORMAT_MAP[index_format])
    IN  [buffer_bytes |-> vb \o ib, index_offset |-> Len(vb)]

\* does one of the integer conversions of the encoder meet a value its
\* element type cannot hold?
encoder_overflows(input, index_format, attribute_info) ==
    LET data == present(input)
    IN  \/ Overflows(Flatten(input.indices), FORMAT_MAP[index_format])
        \/ \E p \in 1..zip_length(data) :
             \E k \in 1..Min(Len(data), Len(attribute_info)) :
                /\ FORMAT_MAP[attribute_info[k].format] # "single"
                /\ Overflows(data[k][p], FORMAT_MAP[attribute_info[k].format])

(***************************************************************************)
(* build_geometry_patch.  An integer out of range of its element type is   *)
(* wrapped by NumPy 1.x and refused (OverflowError) by NumPy 2.x; the      *)
(* action takes either outcome.                                            *)
(***************************************************************************)
BuildGeometryPatch(input, overflow) ==
    /\ Len(pending) < MaxPatches
    /\ created.Buffer < MaxPatches
    /\ IF input.indices = <<>>
       THEN /\ last' = [op |-> "build_geometry_patch", input |-> input,
                        error |-> "IndexError"]
            /\ UNCHANGED <<created, buffers, views, pending, source>>
       ELSE LET vert_count     == Len(input.vertices)
                index_count    == Len(input.indices) * Len(input.indices[1])
                index_format   == get_format(vert_count)
                attribute_info == set_up_attributes(input)
                built  == build_geometry_buffer(input, index_format, attribute_info)
                bid    == NewId("Buffer")
                vid    == NewId("BufferView")
                size   == Len(built.buffer_bytes)
                index  == [view |-> vid, count |-> index_count,
                           offset |-> built.index_offset, format |-> index_format]
                patch  == [attributes |->
                              [k \in 1..Len(attribute_info) |->
                                  [view |-> vid,
                                   semantic |-> attribute_info[k].semantic,
                                   format |-> attribute_info[k].format,
                                   normalized |-> attribute_info[k].normalized,
                                   offset |-> attribute_info[k].offset,
                                   stride |-> attribute_info[k].stride]],
                           vertex_count |-> vert_count, indices |-> index,
                           type |-> input.index_type]
            IN  IF overflow = "raise"
                   /\ encoder_overflows(input, index_format, attribute_info)
                THEN /\ last' = [op |-> "build_geometry_patch", input |-> input,
                                 error |-> "OverflowError"]
                     /\ UNCHANGED <<created, buffers, views, pending, source>>
                ELSE /\ buffers' = Put(buffers, bid,
                                       [size |-> size,
                                        inline_bytes |-> built.buffer_bytes])
                     /\ views' = Put(views, vid,
                                     [source_buffer |-> bid, type |-> "GEOMETRY",
                                      offset |-> 0, length |-> size])
                     /\ created' = [created EXCEPT !.Buffer = bid,
                                                   !.BufferView = vid]
                     /\ pending' = Append(pending, patch)
                     /\ source' = Put(source, bid, input)
                     /\ last' = [op |-> "build_geometry_patch", input |-> input,
                                 error |-> "none", patch |-> patch,
                                 buffer |-> bid,
                                 attribute_info |-> attribute_info]
    /\ UNCHANGED <<geometries, entities, mesh>>

\* server.create_component(rigatoni.Geometry, patches=patches)
CreateGeometry ==
    /\ Components < MaxComponents
    /\ geometries' = Put(geometries, NewId("Geometry"), [patches |-> pending])
    /\ created' = Counted("Geometry")
    /\ pending' = <<>>
    /\ last' = [op |-> "create_geometry", geometry |-> NewId("Geometry"),
                error |-> "none"]
    /\ UNCHANGED <<buffers, views, entities, source, mesh>>

(***************************************************************************)
(* export_mesh: the decoder.  The result is what is handed to meshio.Mesh, *)
(* or the error that ends the call before that.                            *)
(***************************************************************************)
OtherSemantics == {"NORMAL", "TANGENT", "TEXTURE", "COLOR"}

\* point_data: a key exists exactly when its list is not empty (setdefault
\* creates a key only to append to it)
EmptyPointData == [sem \in OtherSemantics |-> <<>>]

RECURSIVE grouped(_)
\* zip(*(iter(raw_indices),) * 3): whole groups of three, the rest dropped
grouped(raw) ==
    IF Len(raw) < 3 THEN <<>>
    ELSE <<SubSeq(raw, 1, 3)>> \o grouped(SubSeq(raw, 4, Len(raw)))

\* attribute_bytes[i:i + size] (0-based, clipped to the length)
slice(bytes, i, j) == SubSeq(bytes, i + 1, Min(j, Len(bytes)))

RECURSIVE decode_record(_, _, _, _)
\* the for loop over patch.attributes, from attribute k on
decode_record(attribute_bytes, attributes, k, st) ==
    IF k > Len(attributes) \/ st.error # "none" THEN st
    ELSE LET format == attributes[k].format
             current_chunk == slice(attribute_bytes, st.i, st.i + SIZES[format])
             dtype == FORMAT_MAP[format]
         IN  IF Len(current_chunk) % itemsize[dtype] # 0
             THEN [st EXCEPT !.error = "ValueError"]
             ELSE LET attr_data == frombuffer(current_chunk, dtype)
                      next == IF attributes[k].semantic = "POSITION"
                              THEN [st EXCEPT !.i = @ + SIZES[format],
                                              !.points = Append(@, attr_data)]
                              ELSE [st EXCEPT !.i = @ + SIZES[format],
                                      !.point_data[attributes[k].semantic] =
                                          Append(@, attr_data)]
                  IN  decode_record(attribute_bytes, attributes, k + 1, next)

\* how far one pass of the for loop advances i
record_step(attributes) == OffsetAfter(attributes, Len(attributes))

RECURSIVE decode_records(_, _, _, _)
\* passes lo..hi of the while loop; pass r starts at i = r * record_step.
\* The range is halved to keep the evaluation shallow; an error in an
\* earlier pass ends the loop.
decode_records(attribute_bytes, attributes, lo, hi) ==
    IF lo = hi
    THEN decode_record(attribute_bytes, attributes, 1,
                       [error |-> "none", i |-> lo * record_step(attributes),
                        points |-> <<>>, point_data |-> EmptyPointData])
    ELSE LET mid   == (lo + hi) \div 2
             left  == decode_records(attribute_bytes, attributes, lo, mid)
             right == decode_records(attribute_bytes, attributes, mid + 1, hi)
         IN  IF left.error # "none" THEN left
             ELSE [error |-> right.error, i |-> right.i,
                   points |-> left.points \o right.points,
                   point_data |-> [sem \in OtherSemantics |->
                       left.point_data[sem] \o right.point_data[sem]]]

\* the number of passes of `while i < len(attribute_bytes)`
passes(attribute_bytes, attributes) ==
    (Len(attribute_bytes) + record_step(attributes) - 1)
        \div record_step(attributes)

\* one pass of the loop over geometry.patches
export_patch(patch, st) ==
    LET index == patch.indices
    IN  IF index.view \notin DOMAIN views
           \/ views[index.view].source_buffer \notin DOMAIN buffers
        THEN [st EXCEPT !.error = "KeyError"]
        ELSE LET bytes == buffers[views[index.view].source_buffer].inline_bytes
                 dtype == FORMAT_MAP[index.format]
                 need  == index.count * itemsize[dtype]
             IN  IF index.offset > Len(bytes) \/ Len(bytes) - index.offset < need
                 THEN [st EXCEPT !.error = "ValueError"]
                 ELSE LET raw_indices ==
                              frombuffer(SubSeq(bytes, index.offset + 1,
                                                index.offset + need), dtype)
                          attribute_bytes == slice(bytes, 0, index.offset)
                          n == passes(attribute_bytes, patch.attributes)
                          decoded == decode_records(attribute_bytes,
                                                    patch.attributes, 0, n - 1)
                      IN  IF n = 0
                          THEN [st EXCEPT !.indices = @ \o grouped(raw_indices)]
                          ELSE [error |-> decoded.error,
                                indices |-> st.indices \o grouped(raw_indices),
                                points |-> st.points \o decoded.points,
                                point_data |-> [sem \in OtherSemantics |->
                                    st.point_data[sem] \o decoded.point_data[sem]]]

RECURSIVE export_patches(_, _)
export_patches(patches, st) ==
    IF patches = <<>> \/ st.error # "none" THEN st
    ELSE export_patches(Tail(patches), export_patch(Head(patches), st))

export_mesh(geometry) ==
    export_patches(geometry.patches,
                   [error |-> "none", points |-> <<>>, indices |-> <<>>,
                    point_data |-> EmptyPointData])

ExportMesh(g) ==
    LET out == export_mesh(geometries[g])
    IN  /\ mesh' = IF out.error = "none"
                   THEN [written |-> TRUE, points |-> out.points,
                         cells |-> out.indices, point_data |-> out.point_data]
                   ELSE mesh
        /\ last' = [op |-> "export_mesh", geometry |-> g, error |-> out.error]
        /\ UNCHANGED <<created, buffers, views, geometries, entities, pending,
                       source>>

(***************************************************************************)
(* The encoder / decoder specification.                                    *)
(***************************************************************************)
NoMesh == [written |-> FALSE, points |-> <<>>, cells |-> <<>>,
           point_data |-> EmptyPointData]

Init ==
    /\ created = [Buffer |-> 0, BufferView |-> 0, Geometry |-> 0, Entity |-> 0]
    /\ buffers = <<>>
    /\ views = <<>>
    /\ geometries = <<>>
    /\ entities = <<>>
    /\ pending = <<>>
    /\ source = <<>>
    /\ mesh = NoMesh
    /\ last = [op |-> "none", error |-> "none"]

Next ==
    \/ \E input \in (IF created.Buffer = 0 THEN PatchInputs ELSE FurtherInputs) :
          \E overflow \in {"wrap", "raise"} : BuildGeometryPatch(input, overflow)
    \/ pending # <<>> /\ CreateGeometry
    \/ \E g \in DOMAIN geometries : ExportMesh(g)

Spec == Init /\ [][Next]_vars

(***************************************************************************)
(* padded and create_instances.                                            *)
(***************************************************************************)
\* a padding that leaves short elements as they are
padded_unfilled(lst) == lst

padded(lst) ==
    IF Len(lst) < 4 THEN lst \o [k \in 1..(4 - Len(lst)) |-> 0] ELSE lst

Longest(a, b, c, d) ==
    CHOOSE n \in {Len(a), Len(b), Len(c), Len(d)} :
        \A m \in {Len(a), Len(b), Len(c), Len(d)} : m <= n

create_instances(positions, colors, rotations, scales) ==
    LET pos == IF positions = <<>> /\ colors = <<>> /\ rotations = <<>>
                  /\ scales = <<>>
               THEN <<DEFAULT_POSITION>> ELSE positions
        num_instances == Longest(pos, colors, rotations, scales)
        instance(i) ==
            << IF i <= Len(pos) THEN padded(pos[i]) ELSE DEFAULT_POSITION,
               IF i <= Len(colors) THEN padded(colors[i]) ELSE DEFAULT_COLOR,
               IF i <= Len(rotations) THEN padded(rotations[i])
               ELSE DEFAULT_ROTATION,
               IF i <= Len(scales) THEN padded(scales[i]) ELSE DEFAULT_SCALE >>
    IN  Flatten([i \in 1..num_instances |-> instance(i)])

\* element i of the list numbered c, with w components
InstanceElement(c, i, w) == [j \in 1..w |-> 10 * c + 2 * i + j]

InstanceList(c, len, w) == [i \in 1..len |-> InstanceElement(c, i, w)]

CreateInstances(positions, colors, rotations, scales) ==
    /\ last' = [op |-> "create_instances", positions |-> positions,
                colors |-> colors, rotations |-> rotations, scales |-> scales,
                error |-> "none",
                instances |-> create_instances(positions, colors, rotations,
                                               scales)]
    /\ UNCHANGED <<created, buffers, views, geometries, entities, pending,
                   source, mesh>>

NextInstances ==
    \E lp \in 0..MaxInst, lc \in 0..MaxInst, lr \in 0..MaxInst,
       ls \in 0..MaxInst, w \in 0..4 :
        CreateInstances(InstanceList(1, lp, w), InstanceList(2, lc, w),
                        InstanceList(3, lr, w), InstanceList(4, ls, w))

SpecInstances == Init /\ [][NextInstances]_vars

(***************************************************************************)
(* build_instance_buffer, build_entity, update_entity, add_instances.      *)
(***************************************************************************)
\* instances a caller passes: the builder's output for a few arguments
InstanceChoices ==
    { create_instances(<< <<1, 1, 1>> >>, <<>>, <<>>, <<>>),
      create_instances(<< <<1, 2, 3>>, <<-4, 5, -6>> >>,
                       << <<1, 0, 0, 1>> >>, <<>>, << <<2, 2, 2>> >>) }

\* render_rep.instances: an InstanceSource, or None
None == [present |-> FALSE, view |-> 0]

InstanceSource(view) == [present |-> TRUE, view |-> view]

\* np.array(matrices, dtype=np.single).tobytes(order='C') of the flat list
build_instance_buffer(flat) ==
    LET buffer_bytes == tobytes(flat, "single")
    IN  [size |-> Len(buffer_bytes), inline_bytes |-> buffer_bytes]

\* an append that puts the new numbers first
np_append_front(old_instances, instances) == instances \o old_instances

\* np.append(old_instances, instances): both flattened, old first
np_append(old_instances, instances) == old_instances \o instances

BuildEntity(g, instances) ==
    /\ Components + (IF instances # <<>> THEN 1 ELSE 0) < MaxComponents
    /\ LET bid == NewId("Buffer")
           vid == NewId("BufferView")
           buffer == build_instance_buffer(Flatten(instances))
           eid == NewId("Entity")
       IN  /\ IF instances # <<>>
              THEN /\ buffers' = Put(buffers, bid, buffer)
                   /\ views' = Put(views, vid,
                                   [source_buffer |-> bid, type |-> "UNK",
                                    offset |-> 0, length |-> buffer.size])
                   /\ created' = [created EXCEPT !.Buffer = bid,
                                     !.BufferView = vid, !.Entity = eid]
                   /\ entities' = Put(entities, eid,
                         [render_rep |-> [mesh |-> g,
                                          instances |-> InstanceSource(vid)]])
              ELSE /\ UNCHANGED <<buffers, views>>
                   /\ created' = Counted("Entity")
                   /\ entities' = Put(entities, eid,
                         [render_rep |-> [mesh |-> g, instances |-> None]])
           /\ last' = [op |-> "build_entity", entity |-> eid, error |-> "none",
                       instances |-> Flatten(instances)]
    /\ UNCHANGED <<geometries, pending, source, mesh>>

\* update_entity(server, entity, geometry, instances) on the store st:
\* the store it leaves and the error it ends with.  geometry = 0 and
\* flat = <<>> stand for arguments that are None.
update_entity(st, e, geometry, flat) ==
    LET old_rep == st.entities[e].render_rep
        mesh_id == IF geometry # 0 THEN geometry ELSE old_rep.mesh
        bid == st.created.Buffer + 1
        vid == st.created.BufferView + 1
        buffer == build_instance_buffer(flat)
        \* the store once the entity is repointed
        built ==
            IF flat # <<>>
            THEN [st EXCEPT
                    !.buffers = Put(@, bid, buffer),
                    !.views = Put(@, vid, [source_buffer |-> bid,
                                           type |-> "UNK", offset |-> 0,
                                           length |-> buffer.size]),
                    !.created = [@ EXCEPT !.Buffer = bid, !.BufferView = vid],
                    !.entities = [@ EXCEPT ![e].render_rep =
                        [mesh |-> mesh_id, instances |-> InstanceSource(vid)]]]
            ELSE [st EXCEPT
                    !.entities = [@ EXCEPT ![e].render_rep =
                        [mesh |-> mesh_id, instances |-> old_rep.instances]]]
    IN  \* the clean-up with deletes
        IF flat # <<>>
        THEN IF ~old_rep.instances.present
             THEN [built EXCEPT !.error = "AttributeError"]
             ELSE IF old_rep.instances.view \notin DOMAIN built.views
             THEN [built EXCEPT !.error = "KeyError"]
             ELSE LET old_buffer == built.views[old_rep.instances.view].source_buffer
                  IN  IF old_buffer \notin DOMAIN built.buffers
                      THEN [built EXCEPT !.error = "KeyError"]
                      ELSE [built EXCEPT
                              !.buffers = Remove(@, old_buffer),
                              !.views = Remove(@, old_rep.instances.view)]
        ELSE IF geometry # 0
        THEN IF old_rep.mesh \notin DOMAIN built.geometries
             THEN [built EXCEPT !.error = "KeyError"]
             ELSE [built EXCEPT !.geometries = Remove(@, old_rep.mesh)]
        ELSE built

Store ==
    [created |-> created, buffers |-> buffers, views |-> views,
     geometries |-> geometries, entities |-> entities, error |-> "none"]

UpdateEntity(e, geometry, instances) ==
    /\ instances # <<>> => Components < MaxComponents
    /\ LET out == update_entity(Store, e, geometry, Flatten(instances))
       IN  /\ created' = out.created
           /\ buffers' = out.buffers
           /\ views' = out.views
           /\ geometries' = out.geometries
           /\ entities' = out.entities
           /\ last' = [op |-> "update_entity", entity |-> e,
                       geometry |-> geometry,
                       instances |-> Flatten(instances),
                       had_instances |->
                           entities[e].render_rep.instances.present,
                       error |-> out.error]
    /\ UNCHANGED <<pending, source, mesh>>

AddInstances(e, instances) ==
    /\ Components < MaxComponents
    /\ LET rep == entities[e].render_rep
           reads == /\ rep.instances.present
                    /\ rep.instances.view \in DOMAIN views
                    /\ views[rep.instances.view].source_buffer \in DOMAIN buffers
           old_instances ==
               frombuffer(buffers[views[rep.instances.view].source_buffer]
                              .inline_bytes, "single")
           combined == np_append(old_instances, Flatten(instances))
           out == update_entity(Store, e, 0, combined)
       IN  IF reads
           THEN /\ created' = out.created
                /\ buffers' = out.buffers
                /\ views' = out.views
                /\ geometries' = out.geometries
                /\ entities' = out.entities
                /\ last' = [op |-> "add_instances", entity |-> e,
                            old |-> old_instances,
                            instances |-> Flatten(instances),
                            had_instances |-> TRUE, error |-> out.error]
           ELSE /\ UNCHANGED <<created, buffers, views, geometries, entities>>
                /\ last' = [op |-> "add_instances", entity |-> e,
                            instances |-> Flatten(instances),
                            had_instances |-> rep.instances.present,
                            error |-> IF rep.instances.present
                                      THEN "KeyError" ELSE "AttributeError"]
    /\ UNCHANGED <<pending, source, mesh>>

NextEntity ==
    \/ CreateGeometry
    \/ \E g \in DOMAIN geometries, instances \in InstanceChoices \cup {<<>>} :
          BuildEntity(g, instances)
    \/ \E e \in DOMAIN entities, g \in DOMAIN geometries \cup {0},
          instances \in InstanceChoices \cup {<<>>} :
          UpdateEntity(e, g, instances)
    \/ \E e \in DOMAIN entities, instances \in InstanceChoices :
          AddInstances(e, instances)

SpecEntity == Init /\ [][NextEntity]_vars

(***************************************************************************)
(* Properties of the encoder and the decoder.                              *)
(***************************************************************************)
OptionalStreams(input) ==
    {input.normals, input.tangents, input.textures, input.colors}

\* a present optional list differs in length from the vertices
Mismatched(input) ==
    \E st \in OptionalStreams(input) :
        st # <<>> /\ Len(st) # Len(input.vertices)

\* groups of three valid vertex indices, at least one group
ValidIndices(input) ==
    /\ input.indices # <<>>
    /\ \A g \in 1..Len(input.indices) :
          /\ Len(input.indices[g]) = 3
          /\ \A c \in 1..3 : input.indices[g][c] \in 0..(Len(input.vertices) - 1)

WellFormed(input) == ~Mismatched(input) /\ ValidIndices(input)

RECURSIVE SizeSum(_)
SizeSum(layout) ==
    IF layout = <<>> THEN 0
    ELSE SIZES[Head(layout).format] + SizeSum(Tail(layout))

\* the input each patch of a geometry was built from
SourceOf(patch) == source[views[patch.indices.view].source_buffer]

RECURSIVE AllVertices(_)
AllVertices(patches) ==
    IF patches = <<>> THEN <<>>
    ELSE SourceOf(Head(patches)).vertices \o AllVertices(Tail(patches))

RECURSIVE AllIndices(_)
AllIndices(patches) ==
    IF patches = <<>> THEN <<>>
    ELSE SourceOf(Head(patches)).indices \o AllIndices(Tail(patches))

Built == last.op = "build_geometry_patch"

Exported == last.op = "export_mesh"

ExportedPatches == geometries[last.geometry].patches

\* C1: round trip -- a well-formed input (equal list lengths, groups of
\* three valid indices) is encoded without error, and decoding the geometry
\* built from such inputs returns the same positions in the same order and
\* the same index groups, element for element.
C1_RoundTrip ==
    /\ (Built /\ WellFormed(last.input)) => last.error = "none"
    /\ (/\ Exported
        /\ \A k \in 1..Len(ExportedPatches) :
              WellFormed(SourceOf(ExportedPatches[k])))
       => /\ last.error = "none"
          /\ mesh.points = AllVertices(ExportedPatches)
          /\ mesh.cells = AllIndices(ExportedPatches)

\* C2: for lists of equal length n the index offset is n * stride, the
\* buffer size is that offset plus index_count * SIZES[index_format], and
\* index_count is len(indices) * len(indices[0]).
C2_OffsetAndSize ==
    (Built /\ last.error = "none" /\ ~Mismatched(last.input)) =>
        LET index == last.patch.indices
            n == Len(last.input.vertices)
        IN  /\ index.offset = n * last.attribute_info[1].stride
            /\ index.count = Len(last.input.indices) * Len(last.input.indices[1])
            /\ buffers[last.buffer].size =
                  index.offset + index.count * SIZES[index.format]
            /\ Len(buffers[last.buffer].inline_bytes) = buffers[last.buffer].size

\* C2 witness: the three-position triangle gives offset 36 and size 39
C2_Witness ==
    /\ Built /\ last.error = "none" /\ last.input = TriangleScenario
    /\ last.patch.indices.offset = 36
    /\ buffers[last.buffer].size = 39

ExpectedSemantics(input) ==
    <<"POSITION">>
    \o (IF input.normals # <<>> THEN <<"NORMAL">> ELSE <<>>)
    \o (IF input.tangents # <<>> THEN <<"TANGENT">> ELSE <<>>)
    \o (IF input.textures # <<>> THEN <<"TEXTURE">> ELSE <<>>)
    \o (IF input.colors # <<>> THEN <<"COLOR">> ELSE <<>>)

\* C3: the descriptors come in the order POSITION, NORMAL, TANGENT, TEXTURE,
\* COLOR (present ones only), all carry the same stride, the stride is the
\* sum of the sizes, each offset is the sum of the sizes before it, and so
\* offset + size <= stride and offset < stride.
C3_StrideInvariant ==
    (Built /\ last.error = "none") =>
        LET layout == last.attribute_info
        IN  /\ [k \in 1..Len(layout) |-> layout[k].semantic]
                  = ExpectedSemantics(last.input)
            /\ \A k \in 1..Len(layout) :
                  /\ layout[k].stride = SizeSum(layout)
                  /\ layout[k].offset = SizeSum(SubSeq(layout, 1, k - 1))
                  /\ layout[k].offset + SIZES[layout[k].format] <= layout[k].stride
                  /\ layout[k].offset < layout[k].stride

\* C3 witness: the layout with all five attributes, stride 44
C3_Witness ==
    /\ Built /\ last.error = "none"
    /\ Len(last.attribute_info) = 5
    /\ last.attribute_info[5].offset = 40
    /\ last.attribute_info[5].stride = 44

\* C4: lists of different lengths make the encoder fail with ShapeMismatch
\* before a byte is written and before a buffer component is created.
C4_ShapeMismatch ==
    (Built /\ Mismatched(last.input)) =>
        last.error = "ShapeMismatch" /\ "buffer" \notin DOMAIN last

Corrupt(patch) ==
    LET index == patch.indices
        bytes == buffers[views[index.view].source_buffer].inline_bytes
    IN  \/ index.offset % patch.attributes[1].stride # 0
        \/ index.offset + index.count * SIZES[index.format] > Len(bytes)

\* C5: decoding a buffer whose vertex section is no multiple of the stride,
\* or whose index range passes the end of the buffer, ends in an error and
\* hands nothing to the mesh sink.
C5_CorruptBuffer ==
    (Exported /\ \E k \in 1..Len(ExportedPatches) : Corrupt(ExportedPatches[k]))
        => last.error # "none"

RECURSIVE RecordCount(_)
\* the sum over the patches of vertex-section length / stride
RecordCount(patches) ==
    IF patches = <<>> THEN 0
    ELSE (Head(patches).indices.offset \div Head(patches).attributes[1].stride)
         + RecordCount(Tail(patches))

\* C6: the number of decoded points is the sum over the patches of
\* (vertex-section length / stride), a whole number for every patch, and
\* every list of point_data is as long as the point list.
C6_CountGuarantee ==
    (Exported /\ last.error = "none" /\ Len(ExportedPatches) >= 1) =>
        /\ \A k \in 1..Len(ExportedPatches) :
              ExportedPatches[k].indices.offset
                  % ExportedPatches[k].attributes[1].stride = 0
        /\ Len(mesh.points) = RecordCount(ExportedPatches)
        /\ \A sem \in OtherSemantics :
              mesh.point_data[sem] # <<>> =>
                  Len(mesh.point_data[sem]) = Len(mesh.points)

(***************************************************************************)
(* Properties of the instance builder and of the entity operations.        *)
(***************************************************************************)
\* x right-padded with 0.0 to four components
PadTo4(x) == [j \in 1..4 |-> IF j <= Len(x) THEN x[j] ELSE 0]

\* group i of the category numbered c: the caller's i-th element padded,
\* or the default of the category
ExpectedGroup(list, i, default) ==
    IF i <= Len(list) THEN PadTo4(list[i]) ELSE default

\* C7: create_instances returns max(len(positions), len(colors),
\* len(rotations), len(scales), 1) instances of four 4-component groups in
\* the order position, color, rotation, scale; a group is the caller's
\* element right-padded with 0.0, or else the default of its category.
C7_CreateInstances ==
    last.op = "create_instances" =>
        LET lens == {Len(last.positions), Len(last.colors),
                     Len(last.rotations), Len(last.scales), 1}
            n == CHOOSE m \in lens : \A k \in lens : k <= m
            out == last.instances
        IN  /\ Len(out) = 4 * n
            /\ Len(Flatten(out)) = 16 * n
            /\ \A i \in 1..n :
                  /\ out[4 * i - 3] = ExpectedGroup(last.positions, i, <<0, 0, 0, 0>>)
                  /\ out[4 * i - 2] = ExpectedGroup(last.colors, i, <<1, 1, 1, 1>>)
                  /\ out[4 * i - 1] = ExpectedGroup(last.rotations, i, <<0, 0, 0, 0>>)
                  /\ out[4 * i] = ExpectedGroup(last.scales, i, <<1, 1, 1, 0>>)

\* C7 witness: two 3-component positions and one color give two instances,
\* the first position padded, the second color the default
C7_Witness ==
    /\ last.op = "create_instances"
    /\ Len(last.positions) = 2 /\ Len(last.positions[1]) = 3
    /\ Len(last.colors) = 1 /\ last.rotations = <<>> /\ last.scales = <<>>
    /\ Len(last.instances) = 8
    /\ last.instances[1] = <<13, 14, 15, 0>>
    /\ last.instances[6] = <<1, 1, 1, 1>>
    /\ last.instances[8] = <<1, 1, 1, 0>>

\* the flat sequence the instance buffer of entity e decodes to
InstancesOf(e) ==
    frombuffer(
        buffers[views[entities[e].render_rep.instances.view].source_buffer]
            .inline_bytes, "single")

\* the entity refers to an instance view whose buffer is in the store
HasInstanceBuffer(e) ==
    /\ entities[e].render_rep.instances.present
    /\ entities[e].render_rep.instances.view \in DOMAIN views
    /\ views[entities[e].render_rep.instances.view].source_buffer
          \in DOMAIN buffers

\* C8: add_instances on an entity whose instance buffer decodes to old
\* leaves it with a buffer that decodes to old ++ flatten(new).
C8_Append ==
    (last.op = "add_instances" /\ last.had_instances) =>
        /\ last.error = "none"
        /\ HasInstanceBuffer(last.entity)
        /\ InstancesOf(last.entity) = last.old \o last.instances
        /\ Len(InstancesOf(last.entity)) = Len(last.old) + Len(last.instances)
        /\ SubSeq(InstancesOf(last.entity), 1, Len(last.old)) = last.old

\* C8 witness: one instance appended to one instance gives 32 numbers
C8_Witness ==
    /\ last.op = "add_instances" /\ last.error = "none"
    /\ Len(last.old) = 16 /\ Len(last.instances) = 16
    /\ Len(InstancesOf(last.entity)) = 32
    /\ InstancesOf(last.entity)[17] = 1

\* C9: instances given later to an entity built without them are taken
\* without error, and the entity then refers to a stored buffer that
\* holds them.
C9_InstancesLater ==
    (/\ last.op \in {"update_entity", "add_instances"}
     /\ ~last.had_instances
     /\ last.instances # <<>>) =>
        /\ last.error = "none"
        /\ HasInstanceBuffer(last.entity)
        /\ InstancesOf(last.entity) = last.instances

\* C10: every entity's render representation refers to a geometry in the
\* store and, when it has instances, to a view and a buffer in the store.
C10_NoDangling ==
    \A e \in DOMAIN entities :
        /\ entities[e].render_rep.mesh \in DOMAIN geometries
        /\ entities[e].render_rep.instances.present => HasInstanceBuffer(e)

====
